---- MODULE Spec2Model ----
(***************************************************************************)
(* Model of application/lib/registration.go: the registration table        *)
(* (RegisteredDecoys), the manager facade (RegistrationManager) and the    *)
(* liveness prober (phantomIsLive).                                        *)
(*                                                                         *)
(* Time is counted in whole minutes.  Callers are goroutines; each one is  *)
(* at a position (pc) inside the operation it is executing.  Spec runs the *)
(* calls one goroutine makes on the manager (step by step, the clock       *)
(* moving between steps); ConcSpec interleaves the steps of the calls all  *)
(* goroutines make on the table.                                           *)
(***************************************************************************)
EXTENDS Integers, Sequences, FiniteSets

\* ------------------------------------------------------------------ bounds
\* The clock stops at MaxTime minutes.
MaxTime == 6
\* register is not entered when the expiry queue already holds MaxQueue elements.
MaxQueue == 2
\* In ConcSpec the clock stops at ConcMaxTime minutes.
ConcMaxTime == 1

\* A shared secret has at most MaxSecretLen bytes.
MaxSecretLen == 4
\* The runtime ends the program with a stack overflow when more than MaxStack
\* String frames are nested.
MaxStack == 3

\* --------------------------------------------------------- program constants
\* const timeout = -time.Minute * 5 (the retention window, in minutes)
Retention == 5

Threads == {"g1", "g2"}
Main == "g1"
Addrs == {"10.0.0.5", "10.0.0.6"}

\* The nil *DecoyRegistration (also: no key in the map).
NIL == [DarkDecoy |-> "none", id |-> 0]
\* No goroutine (the lock is free); no address argument.
NoThread == "none"
NoAddr == "none"
\* phantomIsLive: width := 8
width == 8
\* Errors net.Dial can return; the error of the default branch of the select.
DialErrs == {"refused", "unreachable"}
TimeoutErr == "Reached statistical timeout"
\* The nil error.
NoErr == "nil"
\* Statements of testConnect a goroutine can be at: in net.Dial; before
\* dialError <- err (one state per error); before conn.Close(); before
\* dialError <- nil; returned.
AttemptStates == {"dial", "closing", "sendNil", "exit"} \cup DialErrs
\* phantomIsLive has not returned.
NoResult == [live |-> FALSE, err |-> "none"]

\* encoding/hex: const hextable = "0123456789abcdef"
hextable == <<"0", "1", "2", "3", "4", "5", "6", "7", "8", "9",
              "a", "b", "c", "d", "e", "f">>
\* Bytes a shared secret is made of (0x00, 0x0a, 0xad, 0xbe, 0xde, 0xef, 0xff).
SecretBytes == {0, 10, 173, 190, 222, 239, 255}
\* A receiver of IDString / String: a nil *DecoyRegistration, one whose keys field
\* is nil, or one with keys and a SharedSecret.
NilReg == [isNil |-> TRUE, hasKeys |-> FALSE, SharedSecret |-> <<>>]
\* The string "000000", as a sequence of characters.
Zeros == <<"0", "0", "0", "0", "0", "0">>
\* No outcome yet.
NoOut == [fault |-> "none", str |-> <<>>]

\* No lookup has been made since the table last changed.
NoLookup == [addr |-> NoAddr, d |-> NIL]

\* Identities of allocated DecoyRegistration values: enough for every reference
\* the program can hold at one time.
Ids == 1..(3 * Cardinality(Threads) + 2 * Cardinality(Addrs) + 2)

VARIABLES
    now,             \* time.Now(), in minutes
    decoys,          \* RegisteredDecoys.decoys: address -> entity or NIL (no key)
    decoysTimeouts,  \* RegisteredDecoys.decoysTimeouts: <<[decoy, registrationTime]>>
    writer,          \* RegisteredDecoys.m: the goroutine holding Lock, or NoThread
    readers,         \* RegisteredDecoys.m: the goroutines holding RLock
    pc,              \* position of each goroutine
    reg,             \* per goroutine: entity returned by NewRegistration, not yet added
    regErr,          \* per goroutine: the call it just made was a NewRegistration
                     \*   that returned an error
    argAddr,         \* per goroutine: darkDecoyAddr argument of the running call
    argD,            \* per goroutine: d argument of the running register call
    cutoff,          \* per goroutine: cutoff local of removeOldRegistrations
    ret,             \* per goroutine: d local of the running checkRegistration
    client,          \* per goroutine: redis client of the running registerForDetector
    lastReg,         \* history: address -> entity of the latest effective register
                     \*   since the address was last evicted
    lastSeen,        \* history: address and result of the latest lookup since the
                     \*   last register or sweep took effect
    \* phantomIsLive (one call)
    ppc,             \* position of the caller of phantomIsLive
    launched,        \* loop counter i of the launch loop
    attempts,        \* number of testConnect goroutines at each of their statements
    dialError,       \* the buffered channel dialError (capacity width)
    conns,           \* connections opened by net.Dial and not closed
    result,          \* (bool, error) returned by phantomIsLive
    firstDeposit,    \* history: the first value sent on dialError
    \* IDString / String (one call)
    fpc,             \* position of the call: "idle", "call" or "done"
    fop,             \* the method called: "IDString" or "String"
    freg,            \* the receiver reg of the call
    fdepth,          \* number of nested String frames on the stack
    fout             \* outcome of the call: the string returned, or the fault

tableVars == <<now, decoys, decoysTimeouts, writer, readers, pc, reg, regErr, argAddr,
               argD, cutoff, ret, client, lastReg, lastSeen>>
probeVars == <<ppc, launched, attempts, dialError, conns, result, firstDeposit>>
fmtVars == <<fpc, fop, freg, fdepth, fout>>
vars == <<tableVars, probeVars, fmtVars>>

\* NewRegisteredDecoys / NewRegistrationManager: empty map, empty queue, free lock;
\* phantomIsLive not started.
BaseInit ==
    /\ now = 0
    /\ decoys = [a \in Addrs |-> NIL]
    /\ decoysTimeouts = <<>>
    /\ writer = NoThread
    /\ readers = {}
    /\ pc = [t \in Threads |-> "idle"]
    /\ reg = [t \in Threads |-> NIL]
    /\ regErr = [t \in Threads |-> FALSE]
    /\ argAddr = [t \in Threads |-> NoAddr]
    /\ argD = [t \in Threads |-> NIL]
    /\ cutoff = [t \in Threads |-> 0]
    /\ ret = [t \in Threads |-> NIL]
    /\ client = [t \in Threads |-> "none"]
    /\ lastReg = [a \in Addrs |-> NIL]
    /\ lastSeen = NoLookup
    /\ ppc = "launch"
    /\ launched = 0
    /\ attempts = [st \in AttemptStates |-> 0]
    /\ dialError = <<>>
    /\ conns = 0
    /\ result = NoResult
    /\ firstDeposit = "none"

\* No call of IDString or String is running.
Init ==
    /\ BaseInit
    /\ fpc = "idle"
    /\ fop = "none"
    /\ freg = NilReg
    /\ fdepth = 0
    /\ fout = NoOut

\* The wall clock advances.
Tick ==
    /\ now < MaxTime
    /\ now' = now + 1
    /\ UNCHANGED <<decoys, decoysTimeouts, writer, readers, pc, reg, regErr, argAddr,
                   argD, cutoff, ret, client, lastReg, lastSeen,
                   probeVars, fmtVars>>

\* ------------------------------------------------------------ pure helpers
\* Time.After: t.After(u) reports whether t is later than u.
After(t, u) == t > u

\* net.IP.String of the entity's phantom address: the map key.
AddrString(d) == d.DarkDecoy

\* Identities of the entities some reference still points to.
UsedIds ==
    {reg[t].id : t \in Threads} \cup {argD[t].id : t \in Threads}
      \cup {ret[t].id : t \in Threads} \cup {decoys[a].id : a \in Addrs}
      \cup {lastReg[a].id : a \in Addrs} \cup {lastSeen.d.id}

\* reg := DecoyRegistration{...}; &reg is a pointer no live reference equals.
FreshId == CHOOSE i \in Ids \ UsedIds : \A j \in Ids \ UsedIds : i <= j

\* A register that keeps the first entity of an address.
registerDecoys_FirstWins(m, a, d) ==
    IF d # NIL /\ m[a] = NIL THEN [m EXCEPT ![a] = d] ELSE m

\* register, map part: r.decoys[darkDecoyAddr] = d, only when d != nil.
registerDecoys(m, a, d) ==
    IF d # NIL THEN [m EXCEPT ![a] = d] ELSE m

\* A register that appends to the queue also when d is nil.
registerQueue_Always(q, a, d, t) ==
    Append(q, [decoy |-> a, registrationTime |-> t])

\* register, queue part: append {decoy, time.Now()}, only when d != nil.
registerQueue(q, a, d, t) ==
    IF d # NIL THEN Append(q, [decoy |-> a, registrationTime |-> t]) ELSE q

\* checkRegistration: d := r.decoys[darkDecoyAddrStatic] (NIL when there is no key).
lookup(m, a) == m[a]

\* removeOldRegistrations, the loop: idx (0-based) advances while idx < len and
\* the break condition cutoff.After(registrationTime) is false.
RECURSIVE sweepIdx(_, _, _)
sweepIdx(q, c, idx) ==
    IF idx < Len(q) /\ ~After(c, q[idx + 1].registrationTime)
    THEN sweepIdx(q, c, idx + 1)
    ELSE idx

\* A sweep that advances the queue without deleting from the map.
sweepDecoys_NoDelete(m, q, c) == m

\* removeOldRegistrations, map part: delete(r.decoys, decoysTimeouts[i].decoy) for
\* every index the loop passed.
sweepDecoys(m, q, c) ==
    LET n == sweepIdx(q, c, 0)
    IN [a \in DOMAIN m |-> IF \E i \in 1..n : q[i].decoy = a THEN NIL ELSE m[a]]

\* removeOldRegistrations, queue part: r.decoysTimeouts = r.decoysTimeouts[idx:].
sweepQueue(q, c) == SubSeq(q, sweepIdx(q, c, 0) + 1, Len(q))

\* A Lock that does not wait for the readers.
CanLock_IgnoreReaders == writer = NoThread

\* sync.RWMutex: Lock waits until there is neither a writer nor a reader.
CanLock == writer = NoThread /\ readers = {}

\* sync.RWMutex: RLock waits until there is no writer.
CanRLock == writer = NoThread

\* Goroutines inside AddRegistration that have not appended to the queue yet.
PendingAdds == {t \in Threads : pc[t] \in {"det_connect", "det_publish", "reg_lock", "reg_body"}
                                  /\ argD[t] # NIL}

\* ------------------------------------------------- RegistrationManager calls
\* A NewRegistration that builds and returns the entity also when the oracle failed.
NewRegistration_EntityOnError(t) ==
    /\ pc[t] = "idle"
    /\ \E r \in Addrs \cup {"err"} :
         IF r = "err"
         THEN /\ reg' = [reg EXCEPT ![t] = [DarkDecoy |-> NoAddr, id |-> FreshId]]
              /\ regErr' = [regErr EXCEPT ![t] = TRUE]
         ELSE /\ reg' = [reg EXCEPT ![t] = [DarkDecoy |-> r, id |-> FreshId]]
              /\ regErr' = [regErr EXCEPT ![t] = FALSE]
    /\ UNCHANGED <<now, decoys, decoysTimeouts, writer, readers, pc, argAddr, argD,
                   cutoff, ret, client, lastReg, lastSeen,
                   probeVars, fmtVars>>

\* A NewRegistration that also puts the new entity in the address map.
NewRegistration_Inserting(t) ==
    /\ pc[t] = "idle"
    /\ \E r \in Addrs \cup {"err"} :
         IF r = "err"
         THEN /\ reg' = [reg EXCEPT ![t] = NIL]
              /\ regErr' = [regErr EXCEPT ![t] = TRUE]
              /\ decoys' = decoys
         ELSE /\ reg' = [reg EXCEPT ![t] = [DarkDecoy |-> r, id |-> FreshId]]
              /\ regErr' = [regErr EXCEPT ![t] = FALSE]
              /\ decoys' = [decoys EXCEPT ![r] = reg'[t]]
    /\ UNCHANGED <<now, decoysTimeouts, writer, readers, pc, argAddr, argD,
                   cutoff, ret, client, lastReg, lastSeen,
                   probeVars, fmtVars>>

\* NewRegistration: the oracle (DDSelector.Select) returns an address or an error.
\* On error: (nil, error).  Otherwise a fresh DecoyRegistration is returned.
NewRegistration(t) ==
    /\ pc[t] = "idle"
    /\ \E r \in Addrs \cup {"err"} :
         IF r = "err"
         THEN /\ reg' = [reg EXCEPT ![t] = NIL]
              /\ regErr' = [regErr EXCEPT ![t] = TRUE]
         ELSE /\ reg' = [reg EXCEPT ![t] = [DarkDecoy |-> r, id |-> FreshId]]
              /\ regErr' = [regErr EXCEPT ![t] = FALSE]
    /\ UNCHANGED <<now, decoys, decoysTimeouts, writer, readers, pc, argAddr, argD,
                   cutoff, ret, client, lastReg, lastSeen,
                   probeVars, fmtVars>>

\* AddRegistration(d), d the entity NewRegistration returned; registerForDetector
\* runs first.
AddRegistration(t) ==
    /\ pc[t] = "idle"
    /\ reg[t] # NIL
    /\ Len(decoysTimeouts) + Cardinality(PendingAdds) < MaxQueue
    /\ argD' = [argD EXCEPT ![t] = reg[t]]
    /\ reg' = [reg EXCEPT ![t] = NIL]
    /\ regErr' = [regErr EXCEPT ![t] = FALSE]
    /\ pc' = [pc EXCEPT ![t] = "det_connect"]
    /\ UNCHANGED <<now, decoys, decoysTimeouts, writer, readers, argAddr,
                   cutoff, ret, client, lastReg, lastSeen,
                   probeVars, fmtVars>>

\* A registerForDetector failure that makes AddRegistration return early.
DetConnect_AbortOnError(t) ==
    /\ pc[t] = "det_connect"
    /\ client' = [client EXCEPT ![t] = "open"]
    /\ \E ok \in BOOLEAN :
         IF ok
         THEN /\ pc' = [pc EXCEPT ![t] = "det_publish"]
         ELSE /\ pc' = [pc EXCEPT ![t] = "idle"]
    /\ UNCHANGED <<now, decoys, decoysTimeouts, writer, readers, reg, regErr, argAddr,
                   argD, cutoff, ret, lastReg, lastSeen,
                   probeVars, fmtVars>>

\* registerForDetector: getRedisClient creates a client and pings.  On error the
\* function prints and returns; AddRegistration goes on to
\* register(d.DarkDecoy.String(), d).
DetConnect(t) ==
    /\ pc[t] = "det_connect"
    /\ client' = [client EXCEPT ![t] = "open"]
    /\ \E ok \in BOOLEAN :
         IF ok
         THEN /\ pc' = [pc EXCEPT ![t] = "det_publish"]
              /\ argAddr' = argAddr
         ELSE /\ pc' = [pc EXCEPT ![t] = "reg_lock"]
              /\ argAddr' = [argAddr EXCEPT ![t] = AddrString(argD[t])]
    /\ UNCHANGED <<now, decoys, decoysTimeouts, writer, readers, reg, regErr, argD,
                   cutoff, ret, lastReg, lastSeen,
                   probeVars, fmtVars>>

\* registerForDetector: client.Publish (its result is ignored), client.Close; then
\* register(d.DarkDecoy.String(), d).
DetPublish(t) ==
    /\ pc[t] = "det_publish"
    /\ client' = [client EXCEPT ![t] = "closed"]
    /\ argAddr' = [argAddr EXCEPT ![t] = AddrString(argD[t])]
    /\ pc' = [pc EXCEPT ![t] = "reg_lock"]
    /\ UNCHANGED <<now, decoys, decoysTimeouts, writer, readers, reg, regErr, argD,
                   cutoff, ret, lastReg, lastSeen,
                   probeVars, fmtVars>>

\* ---------------------------------------------------- RegisteredDecoys.register
\* register(darkDecoyAddr, d) called directly on the table: d is nil or an entity
\* nothing else refers to, whose phantom address is darkDecoyAddr.
Register(t) ==
    /\ pc[t] = "idle"
    /\ \E a \in Addrs, isNil \in BOOLEAN :
         /\ isNil \/ Len(decoysTimeouts) + Cardinality(PendingAdds) < MaxQueue
         /\ argAddr' = [argAddr EXCEPT ![t] = a]
         /\ argD' = [argD EXCEPT ![t] =
                       IF isNil THEN NIL ELSE [DarkDecoy |-> a, id |-> FreshId]]
    /\ regErr' = [regErr EXCEPT ![t] = FALSE]
    /\ pc' = [pc EXCEPT ![t] = "reg_lock"]
    /\ UNCHANGED <<now, decoys, decoysTimeouts, writer, readers, reg,
                   cutoff, ret, client, lastReg, lastSeen,
                   probeVars, fmtVars>>

\* r.m.Lock()
RegLock(t) ==
    /\ pc[t] = "reg_lock"
    /\ CanLock
    /\ writer' = t
    /\ pc' = [pc EXCEPT ![t] = "reg_body"]
    /\ UNCHANGED <<now, decoys, decoysTimeouts, readers, reg, regErr, argAddr, argD,
                   cutoff, ret, client, lastReg, lastSeen,
                   probeVars, fmtVars>>

\* A register that reads the clock before it waits for the lock: the timestamp it
\* appends is the time of some earlier moment.
RegBody_ClockBeforeLock(t) ==
    /\ pc[t] = "reg_body"
    /\ decoys' = registerDecoys(decoys, argAddr[t], argD[t])
    /\ \E ts \in 0..now :
         decoysTimeouts' = registerQueue(decoysTimeouts, argAddr[t], argD[t], ts)
    /\ lastReg' = IF argD[t] # NIL THEN [lastReg EXCEPT ![argAddr[t]] = argD[t]]
                  ELSE lastReg
    /\ lastSeen' = IF argD[t] # NIL THEN NoLookup ELSE lastSeen
    /\ pc' = [pc EXCEPT ![t] = "reg_unlock"]
    /\ UNCHANGED <<now, writer, readers, reg, regErr, argAddr, argD, cutoff, ret,
                   client,
                   probeVars, fmtVars>>

\* if d != nil { map write; append with time.Now() }
RegBody(t) ==
    /\ pc[t] = "reg_body"
    /\ decoys' = registerDecoys(decoys, argAddr[t], argD[t])
    /\ decoysTimeouts' = registerQueue(decoysTimeouts, argAddr[t], argD[t], now)
    /\ lastReg' = IF argD[t] # NIL THEN [lastReg EXCEPT ![argAddr[t]] = argD[t]]
                  ELSE lastReg
    /\ lastSeen' = IF argD[t] # NIL THEN NoLookup ELSE lastSeen
    /\ pc' = [pc EXCEPT ![t] = "reg_unlock"]
    /\ UNCHANGED <<now, writer, readers, reg, regErr, argAddr, argD, cutoff, ret,
                   client,
                   probeVars, fmtVars>>

\* r.m.Unlock(); register (and AddRegistration) returns.
RegUnlock(t) ==
    /\ pc[t] = "reg_unlock"
    /\ writer' = IF writer = t THEN NoThread ELSE writer
    /\ argAddr' = [argAddr EXCEPT ![t] = NoAddr]
    /\ argD' = [argD EXCEPT ![t] = NIL]
    /\ client' = [client EXCEPT ![t] = "none"]
    /\ pc' = [pc EXCEPT ![t] = "idle"]
    /\ UNCHANGED <<now, decoys, decoysTimeouts, readers, reg, regErr, cutoff, ret,
                   lastReg, lastSeen,
                   probeVars, fmtVars>>

\* -------------------------------------------- RegisteredDecoys.checkRegistration
\* CheckRegistration(addr): darkDecoyAddrStatic := darkDecoyAddr.String()
CheckRegistration(t) ==
    /\ pc[t] = "idle"
    /\ \E a \in Addrs : argAddr' = [argAddr EXCEPT ![t] = a]
    /\ regErr' = [regErr EXCEPT ![t] = FALSE]
    /\ pc' = [pc EXCEPT ![t] = "chk_rlock"]
    /\ UNCHANGED <<now, decoys, decoysTimeouts, writer, readers, reg, argD,
                   cutoff, ret, client, lastReg, lastSeen,
                   probeVars, fmtVars>>

\* r.m.RLock()
ChkRLock(t) ==
    /\ pc[t] = "chk_rlock"
    /\ CanRLock
    /\ readers' = readers \cup {t}
    /\ pc' = [pc EXCEPT ![t] = "chk_read"]
    /\ UNCHANGED <<now, decoys, decoysTimeouts, writer, reg, regErr, argAddr, argD,
                   cutoff, ret, client, lastReg, lastSeen,
                   probeVars, fmtVars>>

\* A lookup that takes the entry out of the map.
ChkRead_Consuming(t) ==
    /\ pc[t] = "chk_read"
    /\ ret' = [ret EXCEPT ![t] = lookup(decoys, argAddr[t])]
    /\ decoys' = [decoys EXCEPT ![argAddr[t]] = NIL]
    /\ lastSeen' = [addr |-> argAddr[t], d |-> ret'[t]]
    /\ pc' = [pc EXCEPT ![t] = "chk_runlock"]
    /\ UNCHANGED <<now, decoysTimeouts, writer, readers, reg, regErr, argAddr,
                   argD, cutoff, client, lastReg,
                   probeVars, fmtVars>>

\* d := r.decoys[darkDecoyAddrStatic]
ChkRead(t) ==
    /\ pc[t] = "chk_read"
    /\ ret' = [ret EXCEPT ![t] = lookup(decoys, argAddr[t])]
    /\ lastSeen' = [addr |-> argAddr[t], d |-> ret'[t]]
    /\ pc' = [pc EXCEPT ![t] = "chk_runlock"]
    /\ UNCHANGED <<now, decoys, decoysTimeouts, writer, readers, reg, regErr, argAddr,
                   argD, cutoff, client, lastReg,
                   probeVars, fmtVars>>

\* r.m.RUnlock(); return d
ChkRUnlock(t) ==
    /\ pc[t] = "chk_runlock"
    /\ readers' = readers \ {t}
    /\ argAddr' = [argAddr EXCEPT ![t] = NoAddr]
    /\ ret' = [ret EXCEPT ![t] = NIL]
    /\ pc' = [pc EXCEPT ![t] = "idle"]
    /\ UNCHANGED <<now, decoys, decoysTimeouts, writer, reg, regErr, argD, cutoff,
                   client, lastReg, lastSeen,
                   probeVars, fmtVars>>

\* --------------------------------------- RegisteredDecoys.removeOldRegistrations
\* cutoff := time.Now().Add(-5 minutes), computed before the lock is taken.
RemoveOldRegistrations(t) ==
    /\ pc[t] = "idle"
    /\ cutoff' = [cutoff EXCEPT ![t] = now - Retention]
    /\ regErr' = [regErr EXCEPT ![t] = FALSE]
    /\ pc' = [pc EXCEPT ![t] = "rm_lock"]
    /\ UNCHANGED <<now, decoys, decoysTimeouts, writer, readers, reg, argAddr,
                   argD, ret, client, lastReg, lastSeen,
                   probeVars, fmtVars>>

\* r.m.Lock()
RmLock(t) ==
    /\ pc[t] = "rm_lock"
    /\ CanLock
    /\ writer' = t
    /\ pc' = [pc EXCEPT ![t] = "rm_body"]
    /\ UNCHANGED <<now, decoys, decoysTimeouts, readers, reg, regErr, argAddr, argD,
                   cutoff, ret, client, lastReg, lastSeen,
                   probeVars, fmtVars>>

\* the for loop and the truncation of the queue
RmBody(t) ==
    /\ pc[t] = "rm_body"
    /\ decoys' = sweepDecoys(decoys, decoysTimeouts, cutoff[t])
    /\ decoysTimeouts' = sweepQueue(decoysTimeouts, cutoff[t])
    /\ lastReg' = [a \in Addrs |->
                     IF decoys[a] # NIL /\ decoys'[a] = NIL THEN NIL ELSE lastReg[a]]
    /\ lastSeen' = NoLookup
    /\ pc' = [pc EXCEPT ![t] = "rm_unlock"]
    /\ UNCHANGED <<now, writer, readers, reg, regErr, argAddr, argD, cutoff, ret,
                   client,
                   probeVars, fmtVars>>

\* r.m.Unlock(); return
RmUnlock(t) ==
    /\ pc[t] = "rm_unlock"
    /\ writer' = IF writer = t THEN NoThread ELSE writer
    /\ cutoff' = [cutoff EXCEPT ![t] = 0]
    /\ pc' = [pc EXCEPT ![t] = "idle"]
    /\ UNCHANGED <<now, decoys, decoysTimeouts, readers, reg, regErr, argAddr, argD,
                   ret, client, lastReg, lastSeen,
                   probeVars, fmtVars>>

\* One step of goroutine t inside a call on the manager.
Step(t) ==
    \/ NewRegistration(t)
    \/ AddRegistration(t)
    \/ DetConnect(t)
    \/ DetPublish(t)
    \/ RegLock(t)
    \/ RegBody(t)
    \/ RegUnlock(t)
    \/ CheckRegistration(t)
    \/ ChkRLock(t)
    \/ ChkRead(t)
    \/ ChkRUnlock(t)
    \/ RemoveOldRegistrations(t)
    \/ RmLock(t)
    \/ RmBody(t)
    \/ RmUnlock(t)

\* The calls of one goroutine on the manager, one after the other.
Next ==
    \/ Tick
    \/ Step(Main)

Spec == Init /\ [][Next]_vars

\* The steps of the table calls of all goroutines, interleaved.
ConcTick == now < ConcMaxTime /\ Tick

\* One step of goroutine t inside a call on the table.
TableStep(t) ==
    \/ Register(t)
    \/ RegLock(t)
    \/ RegBody(t)
    \/ RegUnlock(t)
    \/ CheckRegistration(t)
    \/ ChkRLock(t)
    \/ ChkRead(t)
    \/ ChkRUnlock(t)
    \/ RemoveOldRegistrations(t)
    \/ RmLock(t)
    \/ RmBody(t)
    \/ RmUnlock(t)

ConcNext ==
    \/ ConcTick
    \/ \E t \in Threads : TableStep(t)

ConcSpec == Init /\ [][ConcNext]_vars

\* ------------------------------------------------------------- phantomIsLive
\* The width goroutines run the same closure and carry no identity: the state of
\* the attempts is the number of goroutines at each statement of testConnect.
Move(from, to) ==
    [st \in AttemptStates |->
        IF from # to /\ st = from THEN attempts[st] - 1
        ELSE IF from # to /\ st = to THEN attempts[st] + 1
        ELSE attempts[st]]

\* A launch loop that runs once more than the channel has room for (i <= width).
Launch_OneMore ==
    /\ ppc = "launch"
    /\ launched <= width
    /\ launched' = launched + 1
    /\ attempts' = [attempts EXCEPT !["dial"] = @ + 1]
    /\ UNCHANGED <<ppc, dialError, conns, result, firstDeposit, tableVars, fmtVars>>

\* for i := 0; i < width; i++ { go testConnect() }
Launch ==
    /\ ppc = "launch"
    /\ launched < width
    /\ launched' = launched + 1
    /\ attempts' = [attempts EXCEPT !["dial"] = @ + 1]
    /\ UNCHANGED <<ppc, dialError, conns, result, firstDeposit, tableVars, fmtVars>>

\* the loop ends; time.Sleep(timeout) begins
StartSleep ==
    /\ ppc = "launch"
    /\ launched = width
    /\ ppc' = "sleep"
    /\ UNCHANGED <<launched, attempts, dialError, conns, result, firstDeposit, tableVars, fmtVars>>

\* time.Sleep(timeout) returns: the 750 ms have elapsed
WakeUp ==
    /\ ppc = "sleep"
    /\ ppc' = "select"
    /\ UNCHANGED <<launched, attempts, dialError, conns, result, firstDeposit, tableVars, fmtVars>>

\* A select whose receive ignores the value received.
Select_IgnoreErr ==
    /\ ppc = "select"
    /\ IF Len(dialError) > 0
       THEN /\ dialError' = Tail(dialError)
            /\ result' = [live |-> TRUE, err |-> NoErr]
       ELSE /\ dialError' = dialError
            /\ result' = [live |-> FALSE, err |-> TimeoutErr]
    /\ ppc' = "done"
    /\ UNCHANGED <<launched, attempts, conns, firstDeposit, tableVars, fmtVars>>

\* A receive without the default branch: it waits for a value.
Select_Blocking ==
    /\ ppc = "select"
    /\ Len(dialError) > 0
    /\ dialError' = Tail(dialError)
    /\ result' = IF Head(dialError) # NoErr
                 THEN [live |-> FALSE, err |-> Head(dialError)]
                 ELSE [live |-> TRUE, err |-> NoErr]
    /\ ppc' = "done"
    /\ UNCHANGED <<launched, attempts, conns, firstDeposit, tableVars, fmtVars>>

\* select { case err := <-dialError: ... default: ... }; phantomIsLive returns
Select ==
    /\ ppc = "select"
    /\ IF Len(dialError) > 0
       THEN /\ dialError' = Tail(dialError)
            /\ result' = IF Head(dialError) # NoErr
                         THEN [live |-> FALSE, err |-> Head(dialError)]
                         ELSE [live |-> TRUE, err |-> NoErr]
       ELSE /\ dialError' = dialError
            /\ result' = [live |-> FALSE, err |-> TimeoutErr]
    /\ ppc' = "done"
    /\ UNCHANGED <<launched, attempts, conns, firstDeposit, tableVars, fmtVars>>

\* testConnect: conn, err := net.Dial("tcp", address) returns
Dial ==
    /\ attempts["dial"] > 0
    /\ \E e \in DialErrs \cup {NoErr} :
         IF e = NoErr
         THEN /\ attempts' = Move("dial", "closing")
              /\ conns' = conns + 1
         ELSE /\ attempts' = Move("dial", e)
              /\ conns' = conns
    /\ UNCHANGED <<ppc, launched, dialError, result, firstDeposit, tableVars, fmtVars>>

\* testConnect: dialError <- err; return.  The send waits while the buffer is full.
SendErr ==
    /\ \E e \in DialErrs :
         /\ attempts[e] > 0
         /\ Len(dialError) < width
         /\ dialError' = Append(dialError, e)
         /\ firstDeposit' = IF firstDeposit = "none" THEN e ELSE firstDeposit
         /\ attempts' = Move(e, "exit")
    /\ UNCHANGED <<ppc, launched, conns, result, tableVars, fmtVars>>

\* testConnect: conn.Close()
CloseConn ==
    /\ attempts["closing"] > 0
    /\ conns' = conns - 1
    /\ attempts' = Move("closing", "sendNil")
    /\ UNCHANGED <<ppc, launched, dialError, result, firstDeposit, tableVars, fmtVars>>

\* testConnect: dialError <- nil; return.  The send waits while the buffer is full.
SendNil ==
    /\ attempts["sendNil"] > 0
    /\ Len(dialError) < width
    /\ dialError' = Append(dialError, NoErr)
    /\ firstDeposit' = IF firstDeposit = "none" THEN NoErr ELSE firstDeposit
    /\ attempts' = Move("sendNil", "exit")
    /\ UNCHANGED <<ppc, launched, conns, result, tableVars, fmtVars>>

\* The steps of the goroutine that called phantomIsLive.
Caller ==
    \/ Launch
    \/ StartSleep
    \/ WakeUp
    \/ Select

ProbeNext ==
    \/ Launch
    \/ StartSleep
    \/ WakeUp
    \/ Select
    \/ Dial
    \/ SendErr
    \/ CloseConn
    \/ SendNil

\* One call of phantomIsLive.
ProbeSpec == Init /\ [][ProbeNext]_vars

\* The scheduler runs the caller, and time.Sleep returns; no attempt has to finish.
ProbeLiveSpec == Init /\ [][ProbeNext]_vars /\ WF_vars(Caller)

\* ----------------------------------------------------------- IDString / String
\* hex.EncodedLen(n)
EncodedLen(n) == n * 2

\* hex.Encode(dst, src): two characters of hextable per byte, high nibble first.
hexEncode(src) ==
    [k \in 1..EncodedLen(Len(src)) |->
        LET v == src[(k + 1) \div 2]
        IN IF k % 2 = 1 THEN hextable[(v \div 16) + 1] ELSE hextable[(v % 16) + 1]]

\* An IDString that asks for more than 6 characters (n <= 6).
IDString_WrongThreshold(r) ==
    IF r.isNil \/ ~r.hasKeys
    THEN Zeros
    ELSE LET secret == hexEncode(r.SharedSecret)
             n == Len(secret)
         IN IF n <= 6 THEN Zeros ELSE SubSeq(secret, 1, 6)

\* DecoyRegistration.IDString
IDString(r) ==
    IF r.isNil \/ ~r.hasKeys
    THEN Zeros
    ELSE LET secret == hexEncode(r.SharedSecret)
             n == Len(secret)
         IN IF n < 6 THEN Zeros ELSE SubSeq(secret, 1, 6)

\* The byte sequences of length at most n over SecretBytes.
RECURSIVE Secrets(_)
Secrets(n) ==
    IF n = 0 THEN {<<>>}
    ELSE LET shorter == Secrets(n - 1)
         IN shorter \cup {Append(q, b) : q \in {x \in shorter : Len(x) = n - 1},
                                         b \in SecretBytes}

\* The receivers a call is made on.
Receivers ==
    {NilReg, [isNil |-> FALSE, hasKeys |-> FALSE, SharedSecret |-> <<>>]}
      \cup {[isNil |-> FALSE, hasKeys |-> TRUE, SharedSecret |-> x] :
               x \in Secrets(MaxSecretLen)}

\* A call of IDString or String on some receiver is about to run.
FmtInit ==
    /\ BaseInit
    /\ fpc = "call"
    /\ fop \in {"IDString", "String"}
    /\ freg \in Receivers
    /\ fdepth = 0
    /\ fout = NoOut

\* reg.IDString() runs and returns.
IDStringCall ==
    /\ fpc = "call"
    /\ fop = "IDString"
    /\ fout' = [fault |-> "none", str |-> IDString(freg)]
    /\ fpc' = "done"
    /\ UNCHANGED <<fop, freg, fdepth, tableVars, probeVars>>

\* String: if reg == nil { return fmt.Sprintf("%v", reg.String()) }: the argument
\* is evaluated first, which calls String on the same nil receiver.
StringRecurse ==
    /\ fpc = "call"
    /\ fop = "String"
    /\ freg.isNil
    /\ fdepth < MaxStack
    /\ fdepth' = fdepth + 1
    /\ UNCHANGED <<fpc, fop, freg, fout, tableVars, probeVars>>

\* String on a nil receiver: the stack is exhausted and the runtime ends the program.
StringOverflow ==
    /\ fpc = "call"
    /\ fop = "String"
    /\ freg.isNil
    /\ fdepth = MaxStack
    /\ fout' = [fault |-> "stack overflow", str |-> <<>>]
    /\ fpc' = "done"
    /\ UNCHANGED <<fop, freg, fdepth, tableVars, probeVars>>

\* String: len(reg.keys.SharedSecret) with reg.keys == nil dereferences nil.
StringPanic ==
    /\ fpc = "call"
    /\ fop = "String"
    /\ ~freg.isNil
    /\ ~freg.hasKeys
    /\ fout' = [fault |-> "nil pointer dereference", str |-> <<>>]
    /\ fpc' = "done"
    /\ UNCHANGED <<fop, freg, fdepth, tableVars, probeVars>>

\* String: the digest; of its fields the model keeps the hex encoding of the whole
\* shared secret.
StringReturn ==
    /\ fpc = "call"
    /\ fop = "String"
    /\ ~freg.isNil
    /\ freg.hasKeys
    /\ fout' = [fault |-> "none", str |-> hexEncode(freg.SharedSecret)]
    /\ fpc' = "done"
    /\ UNCHANGED <<fop, freg, fdepth, tableVars, probeVars>>

FmtNext ==
    \/ IDStringCall
    \/ StringRecurse
    \/ StringOverflow
    \/ StringPanic
    \/ StringReturn

\* One call of IDString or String.
FmtSpec == FmtInit /\ [][FmtNext]_vars


\* ===================================================================== claims
\* Shorthands for the steps the claims are about.
\* Goroutine t runs the loop and truncation of removeOldRegistrations in this step.
SweepStep(t) == pc[t] = "rm_body" /\ pc'[t] = "rm_unlock"
\* Goroutine t runs the map read of checkRegistration in this step.
ReadStep(t) == pc[t] = "chk_read" /\ pc'[t] = "chk_runlock"
\* The queue holds each address once, with strictly increasing timestamps.
NoReRegistration(q) ==
    \A i, j \in 1..Len(q) :
        i < j => /\ q[i].decoy # q[j].decoy
                 /\ q[i].registrationTime < q[j].registrationTime
InWriteCS(t) == pc[t] \in {"reg_body", "reg_unlock", "rm_body", "rm_unlock"}
InReadCS(t) == pc[t] \in {"chk_read", "chk_runlock"}
AddPcs == {"det_connect", "det_publish", "reg_lock", "reg_body", "reg_unlock"}

\* C1: a sweep removes every old entry: when the queue holds distinct addresses
\* registered at increasing times, after the sweep (cutoff = now - 5 minutes) every
\* entry with registrationTime <= cutoff is not found.
C1_ExpiryRemovesOld ==
    [][\A t \in Threads :
          (SweepStep(t) /\ NoReRegistration(decoysTimeouts)) =>
             \A i \in 1..Len(decoysTimeouts) :
                decoysTimeouts[i].registrationTime <= cutoff[t]
                   => lookup(decoys', decoysTimeouts[i].decoy) = NIL]_vars

\* C2: a sweep keeps every young entry: when the queue holds distinct addresses
\* registered at increasing times, after the sweep every entry with
\* registrationTime > cutoff is still mapped to its entity.
C2_ExpiryKeepsYoung ==
    [][\A t \in Threads :
          (SweepStep(t) /\ NoReRegistration(decoysTimeouts)) =>
             \A i \in 1..Len(decoysTimeouts) :
                (/\ decoysTimeouts[i].registrationTime > cutoff[t]
                 /\ lookup(decoys, decoysTimeouts[i].decoy) # NIL)
                   => lookup(decoys', decoysTimeouts[i].decoy)
                        = lookup(decoys, decoysTimeouts[i].decoy)]_vars

\* C3: last writer wins: the map holds, for every address, the entity of the most
\* recent register(addr, d) with d non-nil (none: not found), and a lookup returns it.
\* (lastReg forgets an address when a sweep evicts it, so the statement also covers
\* the runs with sweeps.)
C3_LastWriterWins ==
    /\ \A a \in Addrs : lookup(decoys, a) = lastReg[a]
    /\ \A t \in Threads : pc[t] = "chk_runlock" => ret[t] = lastReg[argAddr[t]]

\* C3 witness: an address registered twice is looked up and the entity comes back.
C3_Witness ==
    \E t \in Threads :
        /\ pc[t] = "chk_runlock"
        /\ ret[t] # NIL
        /\ Len(decoysTimeouts) = 2
        /\ decoysTimeouts[1].decoy = argAddr[t]
        /\ decoysTimeouts[2].decoy = argAddr[t]

\* C4: no register or sweep is inside its critical section while another register,
\* sweep or lookup is inside its own; a goroutine at a statement that reads or
\* writes the map or the queue holds the lock in the matching mode.
C4_MutualExclusion ==
    /\ \A t, u \in Threads :
          (t # u /\ InWriteCS(t)) => (~InWriteCS(u) /\ ~InReadCS(u))
    /\ \A t \in Threads : InWriteCS(t) => (writer = t /\ readers = {})
    /\ \A t \in Threads : InReadCS(t) => (t \in readers /\ writer = NoThread)

\* C4 witness: a register is inside its critical section while a sweep waits for
\* the lock.
C4_Witness ==
    \E t, u \in Threads : t # u /\ pc[t] = "reg_body" /\ pc[u] = "rm_lock"

\* C5: an address registered at t0 and again at t1 > t0 stays mapped to its entity
\* after a sweep whose cutoff is below t1.
C5_ReRegistrationKept ==
    [][\A t \in Threads :
          SweepStep(t) =>
             \A i, j \in 1..Len(decoysTimeouts) :
                (/\ i < j
                 /\ decoysTimeouts[i].decoy = decoysTimeouts[j].decoy
                 /\ decoysTimeouts[i].registrationTime < decoysTimeouts[j].registrationTime
                 /\ \A k \in (j + 1)..Len(decoysTimeouts) :
                       decoysTimeouts[k].decoy # decoysTimeouts[j].decoy
                 /\ decoysTimeouts[j].registrationTime > cutoff[t]
                 /\ lookup(decoys, decoysTimeouts[j].decoy) # NIL)
                   => lookup(decoys', decoysTimeouts[j].decoy)
                        = lookup(decoys, decoysTimeouts[j].decoy)]_vars

\* C6: no step of checkRegistration changes the map or the queue, and a lookup of
\* the address looked up last, with no register or sweep since, returns the same
\* result.
C6_LookupReadOnly ==
    [][\A t \in Threads :
          /\ (pc[t] \in {"chk_rlock", "chk_read", "chk_runlock"} /\ pc'[t] # pc[t])
                => UNCHANGED <<decoys, decoysTimeouts>>
          /\ (ReadStep(t) /\ lastSeen.addr = argAddr[t]) => ret'[t] = lastSeen.d]_vars

\* C6 witness: two lookups of one address, no write between them, hold the same
\* entity.
C6_Witness ==
    \E t, u \in Threads :
        /\ t # u
        /\ pc[t] = "chk_runlock" /\ pc[u] = "chk_runlock"
        /\ argAddr[t] = argAddr[u]
        /\ ret[t] # NIL /\ ret[t] = ret[u]

\* C7: when AddRegistration(d) returns, the map holds d under d.DarkDecoy, whether
\* the detector was reached or not; the detector steps change neither the map nor
\* the queue; a later lookup returns the entity added last and not evicted since.
C7_AddVisible ==
    [][\A t \in Threads :
          /\ (pc[t] \in AddPcs /\ pc'[t] = "idle")
                => lookup(decoys', AddrString(argD[t])) = argD[t]
          /\ (pc[t] \in {"det_connect", "det_publish"} /\ pc'[t] # pc[t])
                => UNCHANGED <<decoys, decoysTimeouts>>
          /\ ReadStep(t) => ret'[t] = lastReg[argAddr[t]]]_vars

\* C7 witness: the detector could not be reached (the client was never used), the
\* insert is done and AddRegistration is about to return.
C7_Witness ==
    \E t \in Threads :
        /\ pc[t] = "reg_unlock"
        /\ client[t] = "open"
        /\ argD[t] # NIL
        /\ lookup(decoys, AddrString(argD[t])) = argD[t]

\* C8: a NewRegistration whose oracle fails returns an error and no entity, and
\* leaves the map and the queue as they were.
C8_OracleFailure ==
    [][\A t \in Threads :
          (regErr'[t] /\ (~regErr[t] \/ reg[t] # NIL)) =>
             /\ reg'[t] = NIL
             /\ UNCHANGED <<decoys, decoysTimeouts>>]_vars

\* C8 witness: the oracle failed while the table held an entry.
C8_Witness ==
    \E t \in Threads :
        /\ regErr[t]
        /\ reg[t] = NIL
        /\ Len(decoysTimeouts) > 0
        /\ \E a \in Addrs : decoys[a] # NIL

\* The caller of phantomIsLive polls the channel and returns in this step.
PollStep == ppc = "select" /\ ppc' = "done"

C10_AlwaysReturns == <>(ppc = "done")

\* C10 witness: phantomIsLive has returned while all width attempts are still
\* inside net.Dial.
C10_Witness ==
    /\ ppc = "done"
    /\ attempts["dial"] = width
    /\ result = [live |-> FALSE, err |-> TimeoutErr]

\* The caller of phantomIsLive has taken a value from the channel.
Received == IF ppc = "done" /\ result.err # TimeoutErr THEN 1 ELSE 0

\* C11: the attempts never block or leak: width attempts are launched at most; every
\* attempt that has returned has deposited exactly one outcome (the outcomes in the
\* channel plus the one the caller took are as many as the attempts that returned);
\* the channel never holds more than width outcomes and has room whenever an attempt
\* is at a send, also after phantomIsLive has returned; the open connections are
\* exactly those of the attempts that are about to close theirs.
C11_AttemptsNeverBlock ==
    /\ launched <= width
    /\ Len(dialError) <= width
    /\ Len(dialError) + Received = attempts["exit"]
    /\ (attempts["sendNil"] > 0 \/ \E e \in DialErrs : attempts[e] > 0)
          => Len(dialError) < width
    /\ conns = attempts["closing"]

\* C11 witness: phantomIsLive returned on the timeout, then all width attempts
\* deposited their outcome (some connected) and returned; nobody reads the channel.
C11_Witness ==
    /\ ppc = "done"
    /\ result.err = TimeoutErr
    /\ attempts["exit"] = width
    /\ Len(dialError) = width
    /\ \E k \in 1..width : dialError[k] = NoErr
    /\ conns = 0

\* Lower-case hexadecimal digits.
LowerHex == <<"0", "1", "2", "3", "4", "5", "6", "7", "8", "9",
              "a", "b", "c", "d", "e", "f">>
\* The two hexadecimal digits of byte b.
HexOf(b) == <<LowerHex[(b \div 16) + 1], LowerHex[(b % 16) + 1]>>

\* C12: IDString never faults; it returns "000000" for a nil entity, for absent key
\* material and for a shared secret shorter than 3 bytes, and otherwise the hex
\* digits (lower case) of the first 3 bytes of the shared secret; 0xdeadbeef gives
\* "deadbe".
C12_IDString ==
    (fpc = "done" /\ fop = "IDString") =>
        /\ fout.fault = "none"
        /\ fout.str =
             IF freg.isNil \/ ~freg.hasKeys \/ Len(freg.SharedSecret) < 3
             THEN <<"0", "0", "0", "0", "0", "0">>
             ELSE HexOf(freg.SharedSecret[1]) \o HexOf(freg.SharedSecret[2])
                    \o HexOf(freg.SharedSecret[3])
        /\ freg.SharedSecret = <<222, 173, 190, 239>>
              => fout.str = <<"d", "e", "a", "d", "b", "e">>

\* C12 witness: IDString of an entity with the shared secret 0xdeadbeef returned
\* "deadbe".
C12_Witness ==
    /\ fpc = "done"
    /\ fop = "IDString"
    /\ freg.hasKeys
    /\ freg.SharedSecret = <<222, 173, 190, 239>>
    /\ fout = [fault |-> "none", str |-> <<"d", "e", "a", "d", "b", "e">>]

\* C13: String called on a nil entity, or on an entity without key material, ends
\* without a fault (and returns a string).
C13_StringDegrades ==
    (fpc = "done" /\ fop = "String" /\ (freg.isNil \/ ~freg.hasKeys))
        => fout.fault = "none"

\* The entity goroutine t got from NewRegistration and has not inserted yet.
Held(t) ==
    IF reg[t] # NIL THEN reg[t]
    ELSE IF pc[t] \in {"det_connect", "det_publish", "reg_lock", "reg_body"}
         THEN argD[t]
         ELSE NIL

\* C14: a successful NewRegistration leaves the map and the queue unchanged and
\* a lookup of the new entity's address does not return it; as long as the entity
\* has not been inserted by AddRegistration no lookup returns it; the insert of
\* AddRegistration makes it the entry of its address.
C14_InvisibleUntilAdded ==
    [][\A t \in Threads :
         /\ (pc[t] = "idle" /\ reg'[t] # NIL /\ reg'[t] # reg[t])
               => /\ decoys' = decoys
                  /\ decoysTimeouts' = decoysTimeouts
                  /\ lookup(decoys', AddrString(reg'[t])) # reg'[t]
         /\ Held(t)' # NIL
               => /\ \A a \in Addrs : lookup(decoys', a) # Held(t)'
                  /\ \A u \in Threads : ret'[u] # Held(t)'
                  /\ lastSeen'.d # Held(t)'
         /\ (pc[t] = "reg_body" /\ pc'[t] = "reg_unlock" /\ argD[t] # NIL)
               => lookup(decoys', AddrString(argD[t])) = argD[t]
      ]_vars

\* C14 witness: a lookup of the address of an entity that NewRegistration returned
\* and AddRegistration has not added yet has read the older entry of that address.
C14_Witness ==
    \E t \in Threads :
        /\ reg[t] # NIL
        /\ pc[t] = "chk_runlock"
        /\ argAddr[t] = AddrString(reg[t])
        /\ ret[t] # NIL
        /\ ret[t] # reg[t]

\* C15: the body of register(addr, nil) leaves the address map (the mapping of
\* addr included) and the expiry queue unchanged, and when that register returns
\* the lock it took is free again.
C15_NilRegisterNoOp ==
    [][\A t \in Threads :
         /\ (pc[t] = "reg_body" /\ pc'[t] = "reg_unlock" /\ argD[t] = NIL)
               => /\ decoys' = decoys
                  /\ decoysTimeouts' = decoysTimeouts
         /\ (pc[t] = "reg_unlock" /\ pc'[t] = "idle" /\ argD[t] = NIL)
               => /\ writer = t
                  /\ writer' = NoThread
                  /\ decoys' = decoys
                  /\ decoysTimeouts' = decoysTimeouts
      ]_vars

\* C15 witness: register(addr, nil) has run its body while addr is mapped.
C15_Witness ==
    \E t \in Threads :
        /\ pc[t] = "reg_unlock"
        /\ argD[t] = NIL
        /\ argAddr[t] \in Addrs
        /\ decoys[argAddr[t]] # NIL
        /\ decoysTimeouts # <<>>

\* Length of the longest prefix of q whose timestamps are all older than or equal
\* to c.
OldPrefix(q, c) ==
    CHOOSE n \in 0..Len(q) :
        /\ \A i \in 1..n : q[i].registrationTime <= c
        /\ n < Len(q) => q[n + 1].registrationTime > c

\* C16: a sweep with cutoff c removes from the front of the queue exactly the
\* longest prefix of elements with timestamp <= c, deletes from the map exactly
\* the addresses of the removed elements, and leaves the remaining suffix in its
\* original order.
C16_SweepOldPrefix ==
    [][\A t \in Threads :
          SweepStep(t) =>
             LET n == OldPrefix(decoysTimeouts, cutoff[t])
                 gone == {decoysTimeouts[i].decoy : i \in 1..n}
             IN /\ decoysTimeouts' = SubSeq(decoysTimeouts, n + 1, Len(decoysTimeouts))
                /\ \A a \in Addrs :
                      decoys'[a] = IF a \in gone THEN NIL ELSE decoys[a]]_vars

\* C17, as a property of finite runs: a sweep that is invoked when every element
\* of the queue has outlived the retention window (registrationTime <= cutoff)
\* removes them all: afterwards the queue is empty and none of their addresses is
\* in the map.  (Time only advances, so an element such a sweep leaves behind is
\* left behind by every later sweep as well and stays in the table forever.)
C17_EventuallyExpires ==
    [][\A t \in Threads :
          (/\ SweepStep(t)
           /\ \A i \in 1..Len(decoysTimeouts) :
                 decoysTimeouts[i].registrationTime <= cutoff[t])
             => /\ decoysTimeouts' = <<>>
                /\ \A i \in 1..Len(decoysTimeouts) :
                      lookup(decoys', decoysTimeouts[i].decoy) = NIL]_vars

\* C18: when AddRegistration returns, the redis client that its registerForDetector
\* opened has been closed, whether or not the connection check succeeded.
C18_ClientReleased ==
    [][\A t \in Threads :
          (pc[t] = "reg_unlock" /\ pc'[t] = "idle" /\ client[t] # "none")
             => client[t] = "closed"]_vars

\* C19: in every reachable state, under any interleaving of register and
\* removeOldRegistrations calls, the timestamps of the expiry queue are
\* non-decreasing from front to back.
C19_QueueTimeOrdered ==
    \A i, j \in 1..Len(decoysTimeouts) :
        i < j => decoysTimeouts[i].registrationTime <= decoysTimeouts[j].registrationTime

\* C19 witness: registers have appended two elements at different times, the
\* second has not released the lock yet, and a sweep of another goroutine is
\* waiting for the lock.
C19_Witness ==
    /\ Len(decoysTimeouts) = 2
    /\ decoysTimeouts[1].registrationTime < decoysTimeouts[2].registrationTime
    /\ \E t, u \in Threads :
          /\ t # u
          /\ pc[t] = "reg_unlock"
          /\ argD[t] # NIL
          /\ pc[u] = "rm_lock"

\* C20: in every reachable state every address that is a key of the address map
\* has at least one element in the expiry queue.
C20_KeysAreQueued ==
    \A a \in Addrs :
        lookup(decoys, a) # NIL
           => \E i \in 1..Len(decoysTimeouts) : decoysTimeouts[i].decoy = a

\* C20 witness: an address registered twice is a key of the map and has two queue
\* elements, and a sweep holding the lock is about to run its loop.
C20_Witness ==
    \E t, u \in Threads :
        /\ t # u
        /\ pc[t] = "rm_body"
        /\ pc[u] = "idle"
        /\ Len(decoysTimeouts) = 2
        /\ decoysTimeouts[1].decoy = decoysTimeouts[2].decoy
        /\ lookup(decoys, decoysTimeouts[1].decoy) # NIL
        /\ cutoff[t] < 0

====
